---- MODULE Spec2Model ----
(***************************************************************************)
(* Radicale request handling (radicale/__init__.py): the check_rights      *)
(* decorator, the calendar property, the body decoder and the do_* methods *)
(* of CalendarHTTPHandler.                                                  *)
(*                                                                         *)
(* Representation.  Header values and paths are sequences of one-character *)
(* strings.  Byte strings are sequences of integers 0..255, decoded text   *)
(* is a sequence of code points.  Python's None is the empty sequence      *)
(* None and a present value v is Some(v) = <<v>>, so that header.get(name, *)
(* None) and the calendar property have one type.                          *)
(*                                                                         *)
(* The handling of one request is a record h: the response written so far  *)
(* (status, headers, ended, body), the calls made to the ACL (gate), to    *)
(* the calendar property (resolved) and to the collaborators (calls), the  *)
(* bytes read from rfile (rfile) and the exception that ended it (exc).    *)
(* An exception leaves a handler at once: every step is guarded by         *)
(* h.exc = "none".  The interpreter is Python 3 (the first import of       *)
(* lines 40-44).  The name calendar of line 104 is the submodule           *)
(* radicale.calendar, bound in the package namespace once a sibling module *)
(* has imported it; Calendar("radicale", cal) is taken to construct.       *)
(***************************************************************************)
EXTENDS Integers, Sequences, FiniteSets, TLC

VARIABLES encoding, acl, request, collab, response, checks, gateCalls, calls,
          rfileRead, resolved, raised, conn

vars == <<encoding, acl, request, collab, response, checks, gateCalls, calls,
          rfileRead, resolved, raised, conn>>

None == <<>>
Some(v) == <<v>>

\* ------------------------------------------------------------------ bounds
MaxBody == 2

\* ------------------------------------------------------- string primitives
RECURSIVE LStrip(_, _)
\* str.lstrip(chars): drop leading characters that belong to the set chars
LStrip(s, chars) ==
    IF s # <<>> /\ Head(s) \in chars THEN LStrip(Tail(s), chars) ELSE s

RECURSIVE RStrip(_, _)
RStrip(s, chars) ==
    IF s # <<>> /\ s[Len(s)] \in chars
    THEN RStrip(SubSeq(s, 1, Len(s) - 1), chars) ELSE s

\* str.strip(chars)
StripChars(s, chars) == RStrip(LStrip(s, chars), chars)

Whitespace == {" "}

RECURSIVE SplitAcc(_, _, _)
SplitAcc(s, sep, cur) ==
    IF s = <<>> THEN <<cur>>
    ELSE IF Head(s) = sep THEN <<cur>> \o SplitAcc(Tail(s), sep, <<>>)
    ELSE SplitAcc(Tail(s), sep, Append(cur, Head(s)))

\* str.split(sep) for a one-character separator: every occurrence splits
Split(s, sep) == SplitAcc(s, sep, <<>>)

\* ------------------------------------------------------------------ base64
\* The base64 alphabet, in index order (character i+1 encodes the value i)
B64Alphabet ==
  <<"A", "B", "C", "D", "E", "F", "G", "H", "I", "J", "K", "L", "M", "N", "O", "P",
  "Q", "R", "S", "T", "U", "V", "W", "X", "Y", "Z", "a", "b", "c", "d", "e", "f",
  "g", "h", "i", "j", "k", "l", "m", "n", "o", "p", "q", "r", "s", "t", "u", "v",
  "w", "x", "y", "z", "0", "1", "2", "3", "4", "5", "6", "7", "8", "9", "+", "/">>

B64Chars == {B64Alphabet[i] : i \in 1..Len(B64Alphabet)}

B64Index(c) == (CHOOSE i \in 1..Len(B64Alphabet) : B64Alphabet[i] = c) - 1

RECURSIVE B64Data(_)
\* the data characters before the first padding character
B64Data(s) ==
    IF s = <<>> \/ Head(s) = "=" THEN <<>> ELSE <<Head(s)>> \o B64Data(Tail(s))

RECURSIVE B64Bytes(_)
\* the bytes of a run of data characters: 4 characters give 3 bytes, a last
\* group of 3 gives 2 bytes and a last group of 2 gives 1 byte
B64Bytes(d) ==
    IF Len(d) < 2 THEN <<>>
    ELSE LET a == B64Index(d[1])
             b == B64Index(d[2])
             c == IF Len(d) >= 3 THEN B64Index(d[3]) ELSE 0
             e == IF Len(d) >= 4 THEN B64Index(d[4]) ELSE 0
             v == a * 262144 + b * 4096 + c * 64 + e
             three == <<v \div 65536, (v \div 256) % 256, v % 256>>
         IN  IF Len(d) >= 4 THEN three \o B64Bytes(SubSeq(d, 5, Len(d)))
             ELSE SubSeq(three, 1, Len(d) - 1)

\* base64.b64decode(s) with validate=False: characters outside the alphabet
\* are discarded; data that does not fill its last group with padding raises
\* binascii.Error.  Result: [exc, val].
b64decode(s) ==
    LET kept == SelectSeq(s, LAMBDA ch : ch \in B64Chars \cup {"="})
        d    == B64Data(kept)
        pads == Len(SelectSeq(kept, LAMBDA ch : ch = "="))
        r    == Len(d) % 4
        ok   == \/ r = 0
                \/ r = 2 /\ pads >= 2
                \/ r = 3 /\ pads >= 1
    IN  IF ok THEN [exc |-> "none", val |-> B64Bytes(d)]
        ELSE [exc |-> "binascii.Error", val |-> <<>>]

\* ---------------------------------------------------------------- charsets
\* codecs the interpreter knows, among the names the requests use
KnownCharsets == {"utf-8", "iso8859-1", "ascii"}

IsCont(b) == b >= 128 /\ b <= 191

RECURSIVE Utf8(_)
\* strict UTF-8 decoding; [ok, text] with text a sequence of code points
Utf8(bs) ==
    IF bs = <<>> THEN [ok |-> TRUE, text |-> <<>>]
    ELSE LET b == bs[1]
             n == IF b < 128 THEN 1
                  ELSE IF b >= 194 /\ b <= 223 THEN 2
                  ELSE IF b >= 224 /\ b <= 239 THEN 3
                  ELSE IF b >= 240 /\ b <= 244 THEN 4
                  ELSE 0
             wellFormed ==
                 /\ n > 0
                 /\ Len(bs) >= n
                 /\ \A i \in 2..n : IsCont(bs[i])
                 /\ (b = 224 => bs[2] >= 160)
                 /\ (b = 237 => bs[2] <= 159)
                 /\ (b = 240 => bs[2] >= 144)
                 /\ (b = 244 => bs[2] <= 143)
             cp == IF n = 1 THEN b
                   ELSE IF n = 2 THEN (b - 192) * 64 + (bs[2] - 128)
                   ELSE IF n = 3 THEN (b - 224) * 4096 + (bs[2] - 128) * 64
                                      + (bs[3] - 128)
                   ELSE (b - 240) * 262144 + (bs[2] - 128) * 4096
                        + (bs[3] - 128) * 64 + (bs[4] - 128)
         IN  IF ~wellFormed THEN [ok |-> FALSE, text |-> <<>>]
             ELSE LET rest == Utf8(SubSeq(bs, n + 1, Len(bs)))
                  IN  IF rest.ok THEN [ok |-> TRUE, text |-> <<cp>> \o rest.text]
                      ELSE rest

\* bytes.decode(charset): [exc, val]
BytesDecode(bs, charset) ==
    IF charset \notin KnownCharsets
    THEN [exc |-> "LookupError", val |-> <<>>]
    ELSE IF charset = "iso8859-1" THEN [exc |-> "none", val |-> bs]
    ELSE IF charset = "ascii"
    THEN IF \A i \in 1..Len(bs) : bs[i] < 128
         THEN [exc |-> "none", val |-> bs]
         ELSE [exc |-> "UnicodeDecodeError", val |-> <<>>]
    ELSE IF Utf8(bs).ok THEN [exc |-> "none", val |-> Utf8(bs).text]
         ELSE [exc |-> "UnicodeDecodeError", val |-> <<>>]

\* ------------------------------------------------------ the handling record
\* the state of a handler before its first statement
Start ==
    [status |-> 0, headers |-> <<>>, ended |-> FALSE, body |-> <<>>,
     checks |-> 0, gate |-> <<>>, calls |-> <<>>, rfile |-> None,
     resolved |-> <<>>, exc |-> "none"]

Raise(h, name) == IF h.exc = "none" THEN [h EXCEPT !.exc = name] ELSE h

\* BaseHTTPRequestHandler.send_response / send_header / end_headers and
\* wfile.write, as the handlers use them
send_response(h, code) == [h EXCEPT !.status = code]
send_header(h, name, value) == [h EXCEPT !.headers = Append(@, <<name, value>>)]
end_headers(h) == [h EXCEPT !.ended = TRUE]
wfile_write(h, data) == [h EXCEPT !.body = @ \o data]

\* headers.get(name, None) and headers[name]: None when the header is absent
HeaderGet(self, name) == self.headers[name]

\* the status codes of http.client the handlers name
OK == 200
CREATED == 201
NO_CONTENT == 204
MULTI_STATUS == 207
UNAUTHORIZED == 401

\* --------------------------------------------------------- calendar property
\* CalendarHTTPHandler.calendar: Some(<<"radicale", cal>>) or None
\* the calendar property without the strip of the slashes around the path
calendarUnstripped(self) ==
    LET path == Split(self.path, "/")
    IN  IF Len(path) >= 2
        THEN Some(<<"radicale", path[1] \o <<"/">> \o path[2]>>)
        ELSE None

calendar(self) ==
    LET path == Split(StripChars(self.path, {"/"}), "/")
    IN  IF Len(path) >= 2
        THEN Some(<<"radicale", path[1] \o <<"/">> \o path[2]>>)
        ELSE None

\* an evaluation of self.calendar inside a handler, recorded in h.resolved
Resolve(h, self) == [h EXCEPT !.resolved = Append(@, calendar(self))]

\* -------------------------------------------------------------- body decoder
\* the charsets list of decode, lines 109-119
Charsets(self) ==
    LET contentType == HeaderGet(self, "Content-Type")
        declared ==
            IF contentType # None
               /\ \E i \in 1..Len(contentType[1]) : contentType[1][i] = "charset="
            THEN <<StripChars(Split(contentType[1], "charset=")[2], Whitespace)>>
            ELSE <<>>
    IN  declared \o <<self.encoding, <<"utf-8">>, <<"iso8859-1">>>>

\* the name of a charset, from its tokens
CharsetName(tokens) == IF Len(tokens) = 1 THEN tokens[1] ELSE "?"

RECURSIVE TryDecode(_, _)
\* the loop of lines 122-127: the first charset that decodes returns, a
\* UnicodeDecodeError goes on to the next charset, any other exception leaves
\* the loop, and the bare "raise UnicodeDecodeError" after the loop is a
\* TypeError (the exception's constructor takes five arguments)
TryDecode(charsets, text) ==
    IF charsets = <<>> THEN [exc |-> "TypeError", val |-> <<>>]
    ELSE LET r == BytesDecode(text, CharsetName(Head(charsets)))
         IN  IF r.exc = "UnicodeDecodeError" THEN TryDecode(Tail(charsets), text)
             ELSE r

\* CalendarHTTPHandler.decode: [exc, val]
decode(self, text) == TryDecode(Charsets(self), text)

\* ------------------------------------------------------------- collaborators
\* acl.has_right(user, password) of the ACL loaded by HTTPServer.__init__
has_right(self, user, password) == <<user, password>> \in self.acl

\* the etag the storage holds for the addressed object
StoredEtag == "etag-2"

\* an If-Match value that names another version than the stored one
Stale(obj) == obj # None /\ obj[1] # StoredEtag

\* A collaborator of xmlutils / calendar: it returns self.world.answer or
\* raises, as self.world.outcome says.  A conflict (a stale If-Match) is
\* signalled the same two ways: by the exception or in the returned answer.
Collaborate(h, self, op, args) ==
    LET called == [h EXCEPT !.calls = Append(@, [op |-> op, args |-> args])]
    IN  IF self.world.outcome = "raised"
        THEN [h |-> Raise(called, "CollaboratorError"), val |-> <<>>]
        ELSE [h |-> called, val |-> self.world.answer]

\* rfile.read(int(headers["Content-Length"])): int(None) is a TypeError; a
\* present header holds the number int() returns
ReadBody(h, self) ==
    LET length == HeaderGet(self, "Content-Length")
    IN  IF length = None THEN [h |-> Raise(h, "TypeError"), val |-> <<>>]
        ELSE LET data == SubSeq(self.rfile, 1, length[1])
             IN  [h |-> [h EXCEPT !.rfile = Some(data)], val |-> data]

\* ----------------------------------------------------------------- handlers
\* the answer of a handler: status, Content-Length, end of headers, body
Answer(h, code, answer) ==
    wfile_write(
        end_headers(
            send_header(send_response(h, code), "Content-Length",
                        ToString(Len(answer)))),
        answer)

\* body of do_GET: self.calendar, then .vcalendar (the read collaborator),
\* then the argument _encoding, a name no scope defines
GET(self, h) ==
    LET h1 == Resolve(h, self)
    IN  IF calendar(self) = None THEN Raise(h1, "AttributeError")
        ELSE LET r == Collaborate(h1, self, "read", <<calendar(self)>>)
             IN  Raise(r.h, "NameError")

\* body of do_DELETE
DELETE(self, h) ==
    LET obj == HeaderGet(self, "If-Match")
        r   == Collaborate(Resolve(h, self), self, "delete",
                           <<obj, calendar(self), self.path>>)
    IN  IF r.h.exc # "none" THEN r.h
        ELSE Answer(r.h, NO_CONTENT, r.val)

\* do_OPTIONS behind the rights check, as the other methods are
do_OPTIONS_checked(self) ==
    LET h == [Start EXCEPT !.checks = 1, !.gate = <<<<None, None>>>>]
    IN  IF has_right(self, None, None)
        THEN end_headers(
               send_header(
                 send_header(send_response(h, OK), "Allow",
                             "DELETE, GET, OPTIONS, PROPFIND, PUT, REPORT"),
                 "DAV", "1, calendar-access"))
        ELSE end_headers(send_response(h, UNAUTHORIZED))

\* do_OPTIONS
do_OPTIONS(self) ==
    end_headers(
        send_header(
            send_header(send_response(Start, OK), "Allow",
                        "DELETE, GET, OPTIONS, PROPFIND, PUT, REPORT"),
            "DAV", "1, calendar-access"))

\* body of do_PROPFIND
PROPFIND(self, h) ==
    LET xml_request == ReadBody(h, self)
    IN  IF xml_request.h.exc # "none" THEN xml_request.h
        ELSE LET r == Collaborate(Resolve(xml_request.h, self), self, "propfind",
                                  <<xml_request.val, calendar(self), self.path>>)
             IN  IF r.h.exc # "none" THEN r.h
                 ELSE wfile_write(
                        end_headers(
                          send_header(
                            send_header(send_response(r.h, MULTI_STATUS),
                                        "DAV", "1, calendar-access"),
                            "Content-Length", ToString(Len(r.val)))),
                        r.val)

\* do_PUT that forgets the If-Match header
PUT_unconditional(self, h) ==
    LET raw == ReadBody(h, self)
    IN  IF raw.h.exc # "none" THEN raw.h
        ELSE LET ical_request == decode(self, raw.val)
             IN  IF ical_request.exc # "none"
                 THEN Raise(raw.h, ical_request.exc)
                 ELSE LET r == Collaborate(Resolve(raw.h, self), self, "put",
                                           <<ical_request.val, calendar(self),
                                             self.path, None>>)
                      IN  IF r.h.exc # "none" THEN r.h
                          ELSE send_response(r.h, CREATED)

\* body of do_PUT: the response is the status line only
PUT(self, h) ==
    LET raw == ReadBody(h, self)
    IN  IF raw.h.exc # "none" THEN raw.h
        ELSE LET ical_request == decode(self, raw.val)
             IN  IF ical_request.exc # "none"
                 THEN Raise(raw.h, ical_request.exc)
                 ELSE LET obj == HeaderGet(self, "If-Match")
                          r == Collaborate(Resolve(raw.h, self), self, "put",
                                           <<ical_request.val, calendar(self),
                                             self.path, obj>>)
                      IN  IF r.h.exc # "none" THEN r.h
                          ELSE send_response(r.h, CREATED)

\* do_REPORT that passes its body through the decoder, as do_PUT does
REPORT_decoded(self, h) ==
    LET xml_request == ReadBody(h, self)
    IN  IF xml_request.h.exc # "none" THEN xml_request.h
        ELSE LET text == decode(self, xml_request.val)
             IN  IF text.exc # "none" THEN Raise(xml_request.h, text.exc)
                 ELSE LET r == Collaborate(Resolve(xml_request.h, self), self,
                                           "report",
                                           <<text.val, calendar(self),
                                             self.path>>)
                      IN  IF r.h.exc # "none" THEN r.h
                          ELSE Answer(r.h, MULTI_STATUS, r.val)

\* body of do_REPORT
REPORT(self, h) ==
    LET xml_request == ReadBody(h, self)
    IN  IF xml_request.h.exc # "none" THEN xml_request.h
        ELSE LET r == Collaborate(Resolve(xml_request.h, self), self, "report",
                                  <<xml_request.val, calendar(self), self.path>>)
             IN  IF r.h.exc # "none" THEN r.h
                 ELSE Answer(r.h, MULTI_STATUS, r.val)

\* ------------------------------------------------------------- check_rights
\* lines 50-56 of check: the (user, password) the ACL is asked about.  The
\* header characters are ASCII, so encode("ascii") keeps them.
Credentials(self) ==
    LET authorization == HeaderGet(self, "Authorization")
    IN  IF authorization # None /\ authorization[1] # <<>>
        THEN LET challenge == StripChars(LStrip(authorization[1],
                                                {"B", "a", "s", "i", "c"}),
                                         Whitespace)
                 raw   == b64decode(challenge)
                 plain == IF raw.exc = "none" THEN decode(self, raw.val) ELSE raw
                 parts == Split(plain.val, 58)
             IN  IF plain.exc # "none"
                 THEN [exc |-> plain.exc, user |-> None, password |-> None]
                 ELSE IF Len(parts) # 2
                 THEN [exc |-> "ValueError", user |-> None, password |-> None]
                 ELSE [exc |-> "none", user |-> Some(parts[1]),
                       password |-> Some(parts[2])]
        ELSE [exc |-> "none", user |-> None, password |-> None]

\* the else branch of check, lines 61-65
Unauthorized(h) ==
    end_headers(
        send_header(send_response(h, UNAUTHORIZED), "WWW-Authenticate",
                    "Basic realm=\"Radicale Server - Password Required\""))

\* function(request) of line 59, for the four decorated methods
Apply(function, self, h) ==
    CASE function = "do_GET" -> GET(self, h)
      [] function = "do_DELETE" -> DELETE(self, h)
      [] function = "do_PUT" -> PUT(self, h)
      [] function = "do_REPORT" -> REPORT(self, h)

\* check with the rights looked at only after the method has run
checkLate(self, function) ==
    LET entered == [Start EXCEPT !.checks = @ + 1]
        c == Credentials(self)
    IN  IF c.exc # "none" THEN Raise(entered, c.exc)
        ELSE LET h == [entered EXCEPT !.gate = Append(@, <<c.user, c.password>>)]
                 ran == Apply(function, self, h)
             IN  IF has_right(self, c.user, c.password) THEN ran
                 ELSE IF ran.exc # "none" THEN ran ELSE Unauthorized(ran)

\* check(request, function): h.checks counts the entries into check, h.gate
\* lists the questions put to the ACL
check(self, function) ==
    LET entered == [Start EXCEPT !.checks = @ + 1]
        c == Credentials(self)
    IN  IF c.exc # "none" THEN Raise(entered, c.exc)
        ELSE LET h == [entered EXCEPT !.gate = Append(@, <<c.user, c.password>>)]
             IN  IF has_right(self, c.user, c.password)
                 THEN Apply(function, self, h)
                 ELSE Unauthorized(h)


\* do_PROPFIND behind the rights check
do_PROPFIND_checked(self) ==
    LET c == Credentials(self)
        entered == [Start EXCEPT !.checks = 1]
    IN  IF c.exc # "none" THEN Raise(entered, c.exc)
        ELSE LET h == [entered EXCEPT !.gate = <<<<c.user, c.password>>>>]
             IN  IF has_right(self, c.user, c.password) THEN PROPFIND(self, h)
                 ELSE Unauthorized(h)

\* the decorated methods (check_rights, line 68), and do_PROPFIND
do_GET(self) == check(self, "do_GET")
do_DELETE(self) == check(self, "do_DELETE")
do_PUT(self) == check(self, "do_PUT")
do_REPORT(self) == check(self, "do_REPORT")
do_PROPFIND(self) == PROPFIND(self, Start)

\* ----------------------------------------------------------------- dispatch
\* CalendarHTTPHandler defines no dispatch of its own: the one of its base
\* class, BaseHTTPRequestHandler.handle_one_request, looks up the attribute
\* "do_" + command, calls it (the actions Get, Delete, Options, Propfind,
\* Put, Report) and answers send_error(501) when the class has none.
Methods == {"GET", "DELETE", "OPTIONS", "PROPFIND", "PUT", "REPORT"}

\* the error page of send_error, abridged
ErrorPage == <<60, 47, 62>>

\* BaseHTTPRequestHandler.send_error
send_error(h, code) ==
    wfile_write(
        end_headers(
            send_header(
                send_header(
                    send_header(send_response(h, code),
                                "Content-Type", "text/html;charset=utf-8"),
                    "Connection", "close"),
                "Content-Length", ToString(Len(ErrorPage)))),
        ErrorPage)

\* handle_one_request for a command with no do_ attribute, had it taken the
\* attribute without looking whether it is there
handle_unsupported_getattr(self) == Raise(Start, "AttributeError")

\* handle_one_request for a command with no do_ attribute: send_error(501),
\* no method of the class is called
handle_unsupported(self) == send_error(Start, 501)

\* ------------------------------------------------------------------- inputs
\* Authorization headers: absent; "u:p"; "up" (no colon); "u:p:q"; a payload
\* with incorrect padding; "u:p" without the scheme token; another scheme
AuthHeaders ==
    { None,
      Some(<<"B", "a", "s", "i", "c", " ", "d", "T", "p", "w">>),
      Some(<<"B", "a", "s", "i", "c", " ", "d", "X", "A", "=">>),
      Some(<<"B", "a", "s", "i", "c", " ", "d", "T", "p", "w", "O", "n", "E", "=">>),
      Some(<<"B", "a", "s", "i", "c", " ", "d", "T", "p">>),
      Some(<<"d", "T", "p", "w">>),
      Some(<<"D", "i", "g", "e", "s", "t", " ", "x", "y", "z">>) }

ContentTypes ==
    { None,
      Some(<<"text/calendar">>),
      Some(<<"text/calendar;", " ", "charset=", "utf-8">>),
      Some(<<"text/calendar;", " ", "charset=", "iso8859-1">>),
      Some(<<"text/calendar;", " ", "charset=", "x-unknown">>) }

\* "/a/b", "/a/b/x", and "/cal/": one segment, so no calendar
Paths ==
    { <<"/", "a", "/", "b">>,
      <<"/", "a", "/", "b", "/", "x">>,
      <<"/", "c", "a", "l", "/">> }

IfMatches == {None, Some("etag-1"), Some("etag-2")}

\* bytes: the two bytes of UTF-8 "e acute" (C3 A9) and Latin-1 "e acute" (E9)
ByteSamples == {195, 169, 233}

Bodies == UNION {[1..n -> ByteSamples] : n \in 0..MaxBody}

Encodings == {<<"utf-8">>, <<"ascii">>, <<"iso8859-1">>}

Anonymous == <<None, None>>
UserP == <<Some(<<117>>), Some(<<112>>)>>
\* an ACL that grants nobody, one that grants only anonymous access, one
\* that grants only u:p
ACLs == {{}, {Anonymous}, {UserP}}

Answers == {<<>>, <<60, 47, 62>>}

Worlds ==
    {[outcome |-> "returned", answer |-> a] : a \in Answers}
    \cup {[outcome |-> "raised", answer |-> <<>>]}

HasBody(method) == method \in {"PUT", "PROPFIND", "REPORT"}
Conditional(method) == method \in {"PUT", "DELETE"}

\* the bytes the connection holds after the headers, with the Content-Length
\* header: the length of the bytes, or no header when there are none; for
\* PROPFIND and REPORT also a length one short of the bytes on the connection
Payloads(method) ==
    IF HasBody(method)
    THEN {[body |-> b, length |-> Some(Len(b))] : b \in Bodies}
         \cup {[body |-> <<>>, length |-> None]}
         \cup (IF method = "PUT" THEN {}
               ELSE {[body |-> b, length |-> Some(Len(b) - 1)] :
                        b \in Bodies \ {<<>>}})
    ELSE {[body |-> <<>>, length |-> None]}

\* the requests of one method: a body only where the method carries one,
\* If-Match only on the conditional methods
Requests(method) ==
    {[method |-> method, path |-> p, body |-> b.body,
      headers |-> [n \in {"Authorization", "Content-Type", "Content-Length",
                          "If-Match"} |->
                     CASE n = "Authorization" -> a
                       [] n = "Content-Type" -> t
                       [] n = "Content-Length" -> b.length
                       [] OTHER -> m]] :
        p \in Paths, a \in AuthHeaders, t \in ContentTypes,
        b \in Payloads(method),
        m \in (IF Conditional(method) THEN IfMatches ELSE {None})}

\* the handler object of a request: the request, the class attribute
\* _encoding, the server's ACL and the collaborators' behaviour
Self(req, world) ==
    [method |-> req.method, path |-> req.path, headers |-> req.headers,
     rfile |-> req.body, encoding |-> encoding, acl |-> acl, world |-> world]

\* ------------------------------------------------------------ state machine
\* the connections of clients
MaxConns == 2
Conns == 1..MaxConns

Closed == [phase |-> "closed", req |-> None, arrived |-> 0, status |-> 0]

Init ==
    /\ conn = [c \in Conns |-> Closed]
    /\ encoding \in Encodings
    /\ acl \in ACLs
    /\ request = None
    /\ collab = None
    /\ response = [status |-> 0, headers |-> <<>>, ended |-> FALSE, body |-> <<>>]
    /\ checks = 0
    /\ gateCalls = <<>>
    /\ calls = <<>>
    /\ rfileRead = None
    /\ resolved = <<>>
    /\ raised = "none"

\* The server (socketserver.BaseServer, single-threaded) takes one request at
\* a time: the method runs from its first statement to its last on a new
\* handler object; h is what it did.
Serve(req, world, h) ==
    /\ request' = Some(req)
    /\ collab' = Some(world)
    /\ response' = [status |-> h.status, headers |-> h.headers,
                    ended |-> h.ended, body |-> h.body]
    /\ checks' = h.checks
    /\ gateCalls' = h.gate
    /\ calls' = h.calls
    /\ rfileRead' = h.rfile
    /\ resolved' = h.resolved
    /\ raised' = h.exc
    /\ UNCHANGED <<encoding, acl, conn>>

Get ==
    /\ request = None
    /\ \E req \in Requests("GET"), w \in Worlds :
           Serve(req, w, do_GET(Self(req, w)))

Delete ==
    /\ request = None
    /\ \E req \in Requests("DELETE"), w \in Worlds :
           Serve(req, w, do_DELETE(Self(req, w)))

Options ==
    /\ request = None
    /\ \E req \in Requests("OPTIONS"), w \in Worlds :
           Serve(req, w, do_OPTIONS(Self(req, w)))

Propfind ==
    /\ request = None
    /\ \E req \in Requests("PROPFIND"), w \in Worlds :
           Serve(req, w, do_PROPFIND(Self(req, w)))

Put ==
    /\ request = None
    /\ \E req \in Requests("PUT"), w \in Worlds :
           Serve(req, w, do_PUT(Self(req, w)))

Report ==
    /\ request = None
    /\ \E req \in Requests("REPORT"), w \in Worlds :
           Serve(req, w, do_REPORT(Self(req, w)))

\* a request with a method the class has no do_ attribute for
OtherMethods == {"POST", "HEAD"}

Other ==
    /\ request = None
    /\ \E req \in UNION {Requests(method) : method \in OtherMethods},
          w \in Worlds :
           Serve(req, w, handle_unsupported(Self(req, w)))

\* the request is finished: its handler object is discarded and the server
\* waits for the next request
Finish ==
    /\ request # None
    /\ request' = None
    /\ collab' = None
    /\ response' = [status |-> 0, headers |-> <<>>, ended |-> FALSE, body |-> <<>>]
    /\ checks' = 0
    /\ gateCalls' = <<>>
    /\ calls' = <<>>
    /\ rfileRead' = None
    /\ resolved' = <<>>
    /\ raised' = "none"
    /\ UNCHANGED <<encoding, acl, conn>>

Next == Get \/ Delete \/ Options \/ Propfind \/ Put \/ Report \/ Other \/ Finish

Spec == Init /\ [][Next]_vars

\* ----------------------------------------------- the locator on every path
\* The calendar property is a function of self.path; it is exercised on every
\* path of up to MaxPath characters by PROPFIND requests, the handler that
\* resolves the calendar with no gate before it.
MaxPath == 5
PathChars == {"/", "a", "b"}
AllPaths == UNION {[1..n -> PathChars] : n \in 0..MaxPath}

PathRequests ==
    {[method |-> "PROPFIND", path |-> p, body |-> <<>>,
      headers |-> [n \in {"Authorization", "Content-Type", "Content-Length",
                          "If-Match"} |->
                     IF n = "Content-Length" THEN Some(0) ELSE None]] :
        p \in AllPaths}

PropfindPath ==
    /\ request = None
    /\ \E r \in PathRequests, w \in Worlds :
          Serve(r, w, do_PROPFIND(Self(r, w)))

NextLocator == PropfindPath \/ Finish

SpecLocator == Init /\ [][NextLocator]_vars

\* ------------------------------------------------- the server's connections
\* HTTPServer (lines 70-75) is a plain server.HTTPServer, with no threading
\* or forking mix-in: it takes a connection, runs its handler to the end,
\* the handler's blocking reads of rfile included, and only then takes the
\* next connection.  conn[c] is the connection of client c: closed, waiting
\* to be taken by the server, with its handler running, or answered;
\* arrived counts the body bytes the client has sent so far.
ServerRequests ==
    {r \in Requests("PROPFIND") \cup Requests("OPTIONS") :
        /\ r.path = <<"/", "a", "/", "b">>
        /\ r.headers["Authorization"] = None
        /\ r.headers["Content-Type"] = None
        /\ r.method = "PROPFIND" =>
              /\ Len(r.body) = 1
              /\ r.headers["Content-Length"] = Some(1)}

\* the client connects and sends the request line, the headers and a part of
\* the body
Connect(c) ==
    /\ conn[c].phase = "closed"
    /\ \E r \in ServerRequests, n \in 0..1 :
          /\ n <= Len(r.body)
          /\ conn' = [conn EXCEPT ![c] = [phase |-> "waiting", req |-> Some(r),
                                          arrived |-> n, status |-> 0]]

\* the client sends one more byte of the body
Send(c) ==
    /\ conn[c].phase \in {"waiting", "handling"}
    /\ conn[c].arrived < Len(conn[c].req[1].body)
    /\ conn' = [conn EXCEPT ![c].arrived = @ + 1]

\* the server's loop takes the connection and starts its handler: this
\* happens only when no handler is running
Accept(c) ==
    /\ conn[c].phase = "waiting"
    /\ \A d \in Conns : conn[d].phase # "handling"
    /\ conn' = [conn EXCEPT ![c].phase = "handling"]

\* the handler inside rfile.read, with less than Content-Length bytes there
Blocked(c) ==
    /\ conn[c].phase = "handling"
    /\ conn[c].arrived < Len(conn[c].req[1].body)

\* the handler runs to its end, once rfile.read has the bytes it asks for
Handle(c) ==
    /\ conn[c].phase = "handling"
    /\ ~Blocked(c)
    /\ \E w \in Worlds :
          conn' = [conn EXCEPT ![c].phase = "answered",
                               ![c].status =
                                   (IF conn[c].req[1].method = "PROPFIND"
                                    THEN do_PROPFIND(Self(conn[c].req[1], w))
                                    ELSE do_OPTIONS(Self(conn[c].req[1], w))
                                   ).status]

\* the connection is shut down
Close(c) ==
    /\ conn[c].phase = "answered"
    /\ conn' = [conn EXCEPT ![c] = Closed]

Idle == <<encoding, acl, request, collab, response, checks, gateCalls, calls,
          rfileRead, resolved, raised>>

NextServer ==
    \E c \in Conns :
        \/ Connect(c) /\ UNCHANGED Idle
        \/ Send(c) /\ UNCHANGED Idle
        \/ Accept(c) /\ UNCHANGED Idle
        \/ Handle(c) /\ UNCHANGED Idle
        \/ Close(c) /\ UNCHANGED Idle

SpecServer == Init /\ [][NextServer]_vars

\* ------------------------------------------------------------------- claims
Done == request # None
req == request[1]
world == collab[1]

Gated(method) == method \in {"GET", "PUT", "DELETE", "REPORT"}

HasHeader(name, value) ==
    \E i \in 1..Len(response.headers) : response.headers[i] = <<name, value>>

RealmChallenge == "Basic realm=\"Radicale Server - Password Required\""

\* the ACL was asked and answered no / yes
GateDenied == gateCalls # <<>> /\ gateCalls[1] \notin acl
GateGranted == gateCalls # <<>> /\ gateCalls[1] \in acl

\* C1: a GET, PUT, DELETE or REPORT request the gate denies gets 401 with
\* the WWW-Authenticate realm challenge, its response is ended, and nothing
\* else happened: no body byte read, no calendar resolved, no collaborator
\* called, no body written.
C1_DenyShortCircuits ==
    (Done /\ Gated(req.method) /\ GateDenied) =>
        /\ response = [status |-> 401,
                       headers |-> <<<<"WWW-Authenticate", RealmChallenge>>>>,
                       ended |-> TRUE, body |-> <<>>]
        /\ rfileRead = None
        /\ resolved = <<>>
        /\ calls = <<>>
        /\ raised = "none"

C1_Witness ==
    /\ Done /\ req.method = "PUT" /\ GateDenied
    /\ req.body # <<>> /\ calendar(req) # None
    /\ response.status = 401

\* Credentials as section 4.1 of the specification reads the header: the
\* scheme token, a base64 payload, split at the first colon.
BasicToken == <<"B", "a", "s", "i", "c", " ">>

FirstColon(bs) == CHOOSE i \in 1..Len(bs) : bs[i] = 58 /\ \A j \in 1..(i - 1) : bs[j] # 58

StatedCredentials(authorization) ==
    IF authorization = None THEN [valid |-> FALSE, pair |-> <<None, None>>]
    ELSE LET a == authorization[1]
             scheme == Len(a) >= Len(BasicToken)
                       /\ SubSeq(a, 1, Len(BasicToken)) = BasicToken
             raw == b64decode(SubSeq(a, Len(BasicToken) + 1, Len(a)))
             colon == \E i \in 1..Len(raw.val) : raw.val[i] = 58
         IN  IF scheme /\ raw.exc = "none" /\ colon
             THEN [valid |-> TRUE,
                   pair |-> <<Some(SubSeq(raw.val, 1, FirstColon(raw.val) - 1)),
                              Some(SubSeq(raw.val, FirstColon(raw.val) + 1,
                                          Len(raw.val)))>>]
             ELSE [valid |-> FALSE, pair |-> <<None, None>>]

Stated == StatedCredentials(req.headers["Authorization"])

CollaboratorOf(method) ==
    CASE method = "GET" -> "read"
      [] method = "PUT" -> "put"
      [] method = "DELETE" -> "delete"
      [] method = "REPORT" -> "report"
      [] method = "PROPFIND" -> "propfind"
      [] OTHER -> "none"

\* C2: for a GET, PUT, DELETE or REPORT request with valid Basic
\* credentials, the method's collaborator is called exactly once when the ACL
\* grants them, and no collaborator is called when it denies them.
C2_CollaboratorOnceIffGranted ==
    (Done /\ Gated(req.method) /\ Stated.valid) =>
        IF Stated.pair \in acl
        THEN Len(calls) = 1 /\ calls[1].op = CollaboratorOf(req.method)
        ELSE calls = <<>>

\* C3: a GET, PUT, DELETE or REPORT request whose Authorization header is
\* absent or not valid is answered 401 with the realm challenge, and its
\* handling is never aborted without a response.
C3_InvalidHeaderIs401 ==
    (Done /\ Gated(req.method) /\ ~Stated.valid) =>
        /\ response.status = 401
        /\ HasHeader("WWW-Authenticate", RealmChallenge)
        /\ raised = "none"

\* C4: the rights check runs for a request if and only if its method is GET,
\* PUT, DELETE or REPORT; OPTIONS and PROPFIND are handled without entering
\* the check and without any question to the ACL, whatever the
\* Authorization header holds.
C4_GateOnlyOnGatedMethods ==
    Done =>
        /\ (checks > 0) <=> Gated(req.method)
        /\ checks <= 1
        /\ (gateCalls # <<>>) => Gated(req.method)
        /\ req.method \in {"OPTIONS", "PROPFIND"} => checks = 0 /\ gateCalls = <<>>

C4_Witness ==
    /\ Done /\ req.method = "PROPFIND"
    /\ req.headers["Authorization"] # None /\ ~Stated.valid
    /\ response.status = 207 /\ checks = 0

StatusOf(method) ==
    CASE method = "GET" -> 200
      [] method = "PUT" -> 201
      [] method = "DELETE" -> 204
      [] method = "PROPFIND" -> 207
      [] method = "REPORT" -> 207
      [] OTHER -> 0

\* C5: when access is granted (or not required), the path resolves to a
\* calendar and the collaborator was called and succeeded, the status is the
\* one of the method table and, except for PUT, the body is the
\* collaborator's bytes.
C5_StatusAndBodyOfTable ==
    (/\ Done
     /\ req.method \in {"GET", "PUT", "DELETE", "PROPFIND", "REPORT"}
     /\ (Gated(req.method) => GateGranted)
     /\ calendar(req) # None
     /\ calls # <<>> /\ world.outcome = "returned") =>
        /\ response.status = StatusOf(req.method)
        /\ req.method # "PUT" => response.body = world.answer

\* C6: every response carries a Content-Length header equal to the number
\* of bytes of its body.
C6_ContentLengthOnEveryResponse ==
    (Done /\ response.status # 0) =>
        HasHeader("Content-Length", ToString(Len(response.body)))

\* C7: OPTIONS on any path answers 200 with the Allow list and the DAV
\* header, and never enters the rights check, asks the ACL, resolves the
\* calendar or calls a collaborator.
C7_OptionsAlwaysAdvertises ==
    (Done /\ req.method = "OPTIONS") =>
        /\ response.status = 200
        /\ HasHeader("Allow", "DELETE, GET, OPTIONS, PROPFIND, PUT, REPORT")
        /\ HasHeader("DAV", "1, calendar-access")
        /\ checks = 0 /\ gateCalls = <<>>
        /\ resolved = <<>> /\ calls = <<>> /\ rfileRead = None
        /\ raised = "none"

C7_Witness ==
    /\ Done /\ req.method = "OPTIONS"
    /\ calendar(req) = None
    /\ req.headers["Authorization"] # None /\ ~Stated.valid
    /\ <<None, None>> \notin acl
    /\ response.status = 200

\* The candidates of the specification, in its order: the charset the
\* Content-Type header declares (the token after "charset="), the configured
\* default, UTF-8, Latin-1.
StatedCandidates ==
    LET t == req.headers["Content-Type"]
        declared == IF t # None /\ \E i \in 1..Len(t[1]) : t[1][i] = "charset="
                    THEN <<t[1][Len(t[1])]>> ELSE <<>>
    IN  declared \o <<encoding[1], "utf-8", "iso8859-1">>

\* the text of the first candidate that decodes bs without error
FirstDecoded(bs) ==
    LET cands == StatedCandidates
        i == CHOOSE k \in 1..Len(cands) :
                 /\ BytesDecode(bs, cands[k]).exc = "none"
                 /\ \A j \in 1..(k - 1) : BytesDecode(bs, cands[j]).exc # "none"
    IN  BytesDecode(bs, cands[i]).val

\* C8: the decoder returns the text of the first candidate, in the order
\* declared charset, default, UTF-8, Latin-1, that decodes the bytes without
\* error (seen on the text a PUT hands to the write collaborator).
C8_FirstCandidateWins ==
    (Done /\ req.method = "PUT" /\ rfileRead # None) =>
        /\ calls # <<>>
        /\ calls[1].op = "put"
        /\ calls[1].args[1] = FirstDecoded(rfileRead[1])

C10_StaleDeleteIsNot2xx ==
    (/\ Done /\ req.method = "DELETE" /\ GateGranted
     /\ Stale(req.headers["If-Match"])) =>
        /\ response.status # 0
        /\ response.ended
        /\ ~(response.status >= 200 /\ response.status <= 299)

\* the number of non-empty segments of a path: the positions where a run of
\* non-slash characters starts
NonEmptySegments(p) ==
    Cardinality({i \in 1..Len(p) :
                    p[i] # "/" /\ (i = 1 \/ p[i - 1] = "/")})

\* C11: the locator is a function of the path alone, so resolving the same
\* path again gives the same result, and every path with fewer than two
\* non-empty segments (the empty path, slashes only, one segment with any
\* number of slashes around it) resolves to no calendar.
C11_ShortPathsAreAbsent ==
    Done =>
        /\ resolved = <<calendar([path |-> req.path])>>
        /\ NonEmptySegments(req.path) < 2 => resolved = <<None>>

C11_Witness ==
    /\ Done /\ req.path = <<"/", "/", "a", "/", "/">>
    /\ resolved = <<None>>

\* C12: with a path that resolves to no calendar, GET, PUT, DELETE, PROPFIND
\* and REPORT, once access is granted or not required, complete with a
\* response and never abort on the absent calendar.  The cases where something
\* else than the absent calendar stops the handler (a body that cannot be read
\* or decoded, a collaborator that raises) are left out.
C12_AbsentCalendarIsAnswered ==
    (/\ Done
     /\ req.method \in {"GET", "PUT", "DELETE", "PROPFIND", "REPORT"}
     /\ Gated(req.method) => GateGranted
     /\ calendar(req) = None
     /\ world.outcome = "returned"
     /\ raised \notin {"TypeError", "LookupError", "CollaboratorError"}) =>
        /\ raised = "none"
        /\ response.status # 0

\* what the decoder makes of the body the handler has read
BodyDecoded == decode(Self(req, world), rfileRead[1])

C16_ResponseIsComplete ==
    (Done /\ raised = "none") =>
        /\ response.status # 0
        /\ response.ended

\* the declared charset, if any, is one the decoder knows
DecoderUsable == decode(Self(req, world), <<>>).exc = "none"

\* C17: the credentials are split at the first colon only: a Basic payload
\* u:p, where p may hold colons, puts exactly the question (u, p) to the ACL,
\* and a request without Authorization header puts the question (None, None).
C17_SplitAtFirstColon ==
    (Done /\ Gated(req.method) /\ DecoderUsable) =>
        /\ req.headers["Authorization"] = None => gateCalls = <<<<None, None>>>>
        /\ Stated.valid => gateCalls = <<Stated.pair>>

\* the non-empty segments of a path, in order
NonEmpty(segment) == segment # <<>>
Segments(p) == SelectSeq(Split(p, "/"), NonEmpty)

\* C18: a path with two or more non-empty segments resolves to the namespace
\* token and its first two non-empty segments, also when empty segments
\* lie between them; later segments play no part.
C18_FirstTwoNonEmptySegments ==
    (Done /\ NonEmptySegments(req.path) >= 2) =>
        resolved = <<Some(<<"radicale",
                           Segments(req.path)[1] \o <<"/">>
                               \o Segments(req.path)[2]>>)>>

\* C20: a declared charset that cannot be used, because the bytes are not
\* valid in it or because its name is unknown, is one failed candidate and
\* the decoder goes on: the decoding of a PUT body never fails, whatever the
\* Content-Type header declares.
C20_DecodingNeverFails ==
    (Done /\ req.method = "PUT" /\ GateGranted /\ rfileRead # None) =>
        /\ BodyDecoded.exc = "none"
        /\ raised \notin {"LookupError", "UnicodeDecodeError", "TypeError"}

\* C19: PROPFIND and REPORT read exactly Content-Length bytes of the
\* connection and hand these bytes, as read and not decoded, with the
\* resolved calendar and the path to their collaborator.
C19_XmlBodyIsPassedRaw ==
    (/\ Done /\ req.method \in {"PROPFIND", "REPORT"}
     /\ Gated(req.method) => GateGranted
     /\ req.headers["Content-Length"] # None) =>
        LET bytes == SubSeq(req.body, 1, req.headers["Content-Length"][1])
        IN  /\ rfileRead = Some(bytes)
            /\ calls = <<[op |-> CollaboratorOf(req.method),
                          args |-> <<bytes, calendar(req), req.path>>]>>

C19_Witness ==
    /\ Done /\ req.method = "REPORT" /\ GateGranted
    /\ req.body = <<195, 169>>
    /\ req.headers["Content-Length"] = Some(2)
    /\ req.headers["Content-Type"]
          = Some(<<"text/calendar;", " ", "charset=", "utf-8">>)
    /\ Len(calls) = 1 /\ calls[1].args[1] = <<195, 169>>
    /\ response.status = 207

\* C14: a request whose method is none of GET, PUT, DELETE, OPTIONS,
\* PROPFIND, REPORT is answered 501; its handling does not abort on the
\* missing handler, and neither the rights check nor a collaborator is
\* reached.
C14_OtherMethodIs501 ==
    (Done /\ req.method \notin Methods) =>
        /\ response.status = 501
        /\ response.ended
        /\ raised = "none"
        /\ checks = 0
        /\ gateCalls = <<>>
        /\ calls = <<>>
        /\ rfileRead = None

C14_Witness ==
    /\ Done /\ req.method = "POST"
    /\ req.headers["Authorization"] # None
    /\ response.status = 501

\* C15: requests on different connections are served concurrently: while
\* the handler of one connection is blocked waiting for the rest of its body,
\* the server can take a request that waits on another connection.
C15_ServedConcurrently ==
    \A c, d \in Conns :
        (c # d /\ Blocked(c) /\ conn[d].phase = "waiting") =>
            ENABLED (Accept(d) /\ UNCHANGED Idle)

====
